---- MODULE Spec2Model ----
(***************************************************************************)
(* Urban Transportation Insights Dashboard (src/app.py, lines 1-192).      *)
(*                                                                         *)
(* The script loads three CSV files into dataframes, fills their missing   *)
(* values, keeps a numeric projection of each, builds the page layout and  *)
(* then serves five callbacks that map the values of four dropdowns to     *)
(* figures.  Cells, dataframes and figures are modelled by value; the      *)
(* pandas / plotly calls are modelled by what they compute.                *)
(***************************************************************************)
EXTENDS Integers, Sequences, FiniteSets, TLC

VARIABLES
    files,                          \* the three CSV files on disk (read only)
    pc,                             \* position of the script: "read_csv", "fillna",
                                    \* "select_dtypes", "layout", "run_server",
                                    \* "serving"; or the exception that ended it:
                                    \* "FileNotFoundError", "KeyError"
    vehicle_registration_df,
    public_transport_df,
    bicycle_network_df,
    vehicle_registration_numeric,
    public_transport_numeric,
    bicycle_network_numeric,
    value,                          \* the `value` of the four dropdowns
    options,                        \* the `options` of column-selector and
                                    \* vehicle-type-selector
    figure,                         \* the outcome of the last evaluation of the
                                    \* callback behind each of the four graphs
    evaluated                       \* the outputs whose callback the last event
                                    \* (page load, dropdown change) evaluated

frames == <<vehicle_registration_df, public_transport_df, bicycle_network_df,
            vehicle_registration_numeric, public_transport_numeric,
            bicycle_network_numeric>>

vars == <<files, pc, frames, value, options, figure, evaluated>>

-----------------------------------------------------------------------------
(* Bounds of the model.                                                    *)

\* rows of a vehicle file drawn from VehiclePool
MaxRows == 3
\* columns a user holds chosen in column-selector at a time
MaxSel == 1

-----------------------------------------------------------------------------
(* Values.  A cell of a dataframe, and the value of a dropdown, is a       *)
(* number, a string, NaN (a missing cell) or None (a dropdown without      *)
(* value).  One record shape keeps every comparison well-typed.            *)

Num(i) == [t |-> "num", n |-> i, s |-> ""]
Str(x) == [t |-> "str", n |-> 0, s |-> x]
NaN == [t |-> "nan", n |-> 0, s |-> ""]
None == [t |-> "none", n |-> 0, s |-> ""]

Range(q) == {q[i] : i \in 1..Len(q)}

RECURSIVE SeqSum(_)
SeqSum(q) == IF q = <<>> THEN 0 ELSE Head(q) + SeqSum(Tail(q))

RECURSIVE Unique(_)
\* Series.unique(): the distinct values in order of first appearance
Unique(q) ==
    IF q = <<>> THEN <<>>
    ELSE LET r == Unique(SubSeq(q, 1, Len(q) - 1))
             x == q[Len(q)]
         IN IF x \in Range(r) THEN r ELSE Append(r, x)

-----------------------------------------------------------------------------
(* Dataframes: column names in order, the dtype read_csv inferred for each *)
(* column, and the rows (each a function from column name to cell).        *)

EmptyFrame == [cols |-> <<>>, dtypes |-> <<>>, rows |-> <<>>]

\* dtype inference of read_csv: a column whose cells all parse as numbers is
\* int64, or float64 when some cell is missing (an all-missing column too);
\* any string makes it object, and so does a file without rows.
InferDtype(rows, c) ==
    IF rows = <<>> THEN "object"
    ELSE IF \E i \in 1..Len(rows) : rows[i][c].t = "str" THEN "object"
    ELSE IF \E i \in 1..Len(rows) : rows[i][c].t = "nan" THEN "float64"
    ELSE "int64"

\* pd.read_csv(path, low_memory=False) of a file that exists
ReadCsv(file) ==
    [cols |-> file.cols,
     dtypes |-> [i \in 1..Len(file.cols) |-> InferDtype(file.rows, file.cols[i])],
     rows |-> file.rows]

\* a fill of the numeric columns only: the missing cells of an object
\* column stay missing
Fillna0NumericOnly(d) ==
    [d EXCEPT !.rows =
        [i \in 1..Len(d.rows) |->
            [c \in DOMAIN d.rows[i] |->
                IF d.rows[i][c].t = "nan"
                   /\ \E k \in 1..Len(d.cols) :
                        d.cols[k] = c /\ d.dtypes[k] \in {"float64", "int64"}
                THEN Num(0) ELSE d.rows[i][c]]]]

\* DataFrame.fillna(0, inplace=True): every missing cell of every column
\* becomes the number 0; dtypes are kept (an object column stays object).
Fillna0(d) ==
    [d EXCEPT !.rows =
        [i \in 1..Len(d.rows) |->
            [c \in DOMAIN d.rows[i] |->
                IF d.rows[i][c].t = "nan" THEN Num(0) ELSE d.rows[i][c]]]]

\* select_dtypes(include=['int64']): the columns read without a missing cell
NumericIdxInt64Only(d) == {i \in 1..Len(d.cols) : d.dtypes[i] = "int64"}

\* DataFrame.select_dtypes(include=['float64', 'int64'])
NumericIdx(d) == {i \in 1..Len(d.cols) : d.dtypes[i] \in {"float64", "int64"}}

RECURSIVE PickIdx(_, _, _)
PickIdx(q, I, i) ==
    IF i > Len(q) THEN <<>>
    ELSE (IF i \in I THEN <<q[i]>> ELSE <<>>) \o PickIdx(q, I, i + 1)

SelectDtypes(d) ==
    LET I == NumericIdx(d)
        keep == PickIdx(d.cols, I, 1)
    IN [cols |-> keep,
        dtypes |-> PickIdx(d.dtypes, I, 1),
        rows |-> [i \in 1..Len(d.rows) |-> [c \in Range(keep) |-> d.rows[i][c]]]]

\* df[col]: the cells of one column, in row order
Column(d, c) == [i \in 1..Len(d.rows) |-> d.rows[i][c]]

-----------------------------------------------------------------------------
(* DataFrame.corr(): Pearson correlation of every pair of columns.  A      *)
(* coefficient r is kept exactly, as its sign and r^2 in lowest terms;     *)
(* a zero variance (a constant column, fewer than two rows) gives NaN.     *)

RECURSIVE Gcd(_, _)
Gcd(a, b) == IF b = 0 THEN a ELSE Gcd(b, a % b)

CorrNaN == [sign |-> 0, num |-> 0, den |-> 0]
CorrOne == [sign |-> 1, num |-> 1, den |-> 1]

Nums(d, c) == [i \in 1..Len(d.rows) |-> d.rows[i][c].n]
Prods(xs, ys) == [i \in 1..Len(xs) |-> xs[i] * ys[i]]

\* n * sum(x*y) - sum(x) * sum(y)
CoMoment(xs, ys) == Len(xs) * SeqSum(Prods(xs, ys)) - SeqSum(xs) * SeqSum(ys)

\* Pearson with the variance of the first column in both places of the
\* denominator
PearsonOwnVariance(d, a, b) ==
    LET xs == Nums(d, a)
        ys == Nums(d, b)
        sxy == CoMoment(xs, ys)
        sxx == CoMoment(xs, xs)
        syy == CoMoment(ys, ys)
        g == Gcd(sxy * sxy, sxx * sxx)
    IN IF sxx = 0 \/ syy = 0 THEN CorrNaN
       ELSE [sign |-> IF sxy > 0 THEN 1 ELSE IF sxy < 0 THEN -1 ELSE 0,
             num |-> (sxy * sxy) \div g,
             den |-> (sxx * sxx) \div g]

\* Pearson that reports 0.0 where the variance is zero
PearsonZeroForConstant(d, a, b) ==
    LET xs == Nums(d, a)
        ys == Nums(d, b)
        sxy == CoMoment(xs, ys)
        sxx == CoMoment(xs, xs)
        syy == CoMoment(ys, ys)
        g == Gcd(sxy * sxy, sxx * syy)
    IN IF sxx = 0 \/ syy = 0 THEN [sign |-> 0, num |-> 0, den |-> 1]
       ELSE [sign |-> IF sxy > 0 THEN 1 ELSE IF sxy < 0 THEN -1 ELSE 0,
             num |-> (sxy * sxy) \div g,
             den |-> (sxx * syy) \div g]

\* r^2 = sxy^2 / (sxx * syy), with the common factors of sxy and each
\* variance taken out before the products are formed (the products of a
\* column with a 0 among longitudes do not fit the integers otherwise)
Pearson(d, a, b) ==
    LET xs == Nums(d, a)
        ys == Nums(d, b)
        sxy == CoMoment(xs, ys)
        sxx == CoMoment(xs, xs)
        syy == CoMoment(ys, ys)
        abs == IF sxy < 0 THEN -sxy ELSE sxy
        gx == Gcd(abs, sxx)
        gy == Gcd(abs, syy)
        num == (abs \div gx) * (abs \div gy)
        den == (sxx \div gx) * (syy \div gy)
        g == Gcd(num, den)
    IN IF sxx = 0 \/ syy = 0 THEN CorrNaN
       ELSE [sign |-> IF sxy > 0 THEN 1 ELSE IF sxy < 0 THEN -1 ELSE 0,
             num |-> num \div g,
             den |-> den \div g]

\* df[selected_columns].corr().values: rows and columns in selection order
CorrMatrix(d, cols) ==
    [i \in 1..Len(cols) |-> [j \in 1..Len(cols) |-> Pearson(d, cols[i], cols[j])]]

-----------------------------------------------------------------------------
(* Figures.                                                                *)

NoFigure == [kind |-> "none", title |-> "", x |-> <<>>, y |-> <<>>,
             z |-> <<>>, text |-> <<>>, colorscale |-> None]

\* the callback raised: no figure is returned
Raised(exc) == [NoFigure EXCEPT !.kind = "raised", !.title = exc]

\* px.line(title=...), px.bar(title=...), px.scatter_mapbox(title=...):
\* a figure of the given kind without data, carrying only a title
Placeholder(kind, title) == [NoFigure EXCEPT !.kind = kind, !.title = title]

-----------------------------------------------------------------------------
(* The callbacks (src/app.py, lines 85-188).  Each reads the module-level  *)
(* dataframes and returns a figure, or raises.                             *)

\* the value of a multi dropdown: None (never set) or a list of column names
NoValue == [none |-> TRUE, list |-> <<>>]
List(q) == [none |-> FALSE, list |-> q]

\* the numeric dataframe the if / elif / else on selected_dataset picks
NumericOf(selected_dataset) ==
    IF selected_dataset = Str("vehicle") THEN vehicle_registration_numeric
    ELSE IF selected_dataset = Str("transport") THEN public_transport_numeric
    ELSE bicycle_network_numeric

\* [{'label': col, 'value': col} for col in columns]
ColumnOptions(columns) ==
    [i \in 1..Len(columns) |-> [label |-> columns[i], value |-> columns[i]]]

\* the column options with the bike columns offered for 'transport' too
UpdateColumnsOptionsVehicleOrBike(selected_dataset) ==
    IF selected_dataset = Str("vehicle")
    THEN ColumnOptions(vehicle_registration_numeric.cols)
    ELSE ColumnOptions(bicycle_network_numeric.cols)

update_columns_options(selected_dataset) ==
    IF selected_dataset = Str("vehicle")
    THEN ColumnOptions(vehicle_registration_numeric.cols)
    ELSE IF selected_dataset = Str("transport")
    THEN ColumnOptions(public_transport_numeric.cols)
    ELSE ColumnOptions(bicycle_network_numeric.cols)

\* ff.create_annotated_heatmap(z, x, y, colorscale, showscale=True): with an
\* empty z it raises (it reads z[0]); otherwise the heatmap of z, annotated
\* with its values, labelled by x and y.
CreateAnnotatedHeatmap(z, x, y, colorscale) ==
    IF Len(z) = 0 THEN Raised("IndexError")
    ELSE [NoFigure EXCEPT !.kind = "heatmap", !.x = x, !.y = y, !.z = z,
                          !.text = z, !.colorscale = colorscale]

\* the heatmap callback with `if selected_columns is None` for the test of
\* line 112: an empty list is then correlated as it is
UpdateCorrelationHeatmapNoneOnly(selected_dataset, selected_columns, selected_color_scale) ==
    LET d == NumericOf(selected_dataset)
        cols == IF selected_columns.none THEN d.cols ELSE selected_columns.list
    IN IF ~(Range(cols) \subseteq Range(d.cols)) THEN Raised("KeyError")
       ELSE CreateAnnotatedHeatmap(CorrMatrix(d, cols), cols, cols,
                                   selected_color_scale)

update_correlation_heatmap(selected_dataset, selected_columns, selected_color_scale) ==
    LET d == NumericOf(selected_dataset)
        \* `if not selected_columns`: None and the empty list are both falsy
        cols == IF selected_columns.none \/ selected_columns.list = <<>>
                THEN d.cols ELSE selected_columns.list
    IN IF ~(Range(cols) \subseteq Range(d.cols)) THEN Raised("KeyError")
       ELSE CreateAnnotatedHeatmap(CorrMatrix(d, cols), cols, cols,
                                   selected_color_scale)

\* the time-series callback with a test of Fin_year only: px.line raises
\* ValueError for a y column that is no column of the dataframe
UpdatePublicTransportGraphYearOnly(selected_dataset) ==
    IF "Fin_year" \notin Range(public_transport_df.cols)
    THEN Placeholder("line", "Public Transport Data Missing or Incorrect")
    ELSE IF "Pax_annual" \notin Range(public_transport_df.cols)
    THEN Raised("ValueError")
    ELSE [NoFigure EXCEPT !.kind = "line",
                          !.title = "Public Transport Usage Over Time",
                          !.x = Column(public_transport_df, "Fin_year"),
                          !.y = Column(public_transport_df, "Pax_annual")]

\* the time-series callback drawing the first row of each year only
UpdatePublicTransportGraphDistinctYears(selected_dataset) ==
    IF "Fin_year" \notin Range(public_transport_df.cols)
       \/ "Pax_annual" \notin Range(public_transport_df.cols)
    THEN Placeholder("line", "Public Transport Data Missing or Incorrect")
    ELSE LET rows == public_transport_df.rows
             first == {i \in 1..Len(rows) :
                        \A j \in 1..(i - 1) : rows[j]["Fin_year"] # rows[i]["Fin_year"]}
             kept == PickIdx(rows, first, 1)
         IN [NoFigure EXCEPT !.kind = "line",
                             !.title = "Public Transport Usage Over Time",
                             !.x = [i \in 1..Len(kept) |-> kept[i]["Fin_year"]],
                             !.y = [i \in 1..Len(kept) |-> kept[i]["Pax_annual"]]]

update_public_transport_graph(selected_dataset) ==
    IF "Fin_year" \notin Range(public_transport_df.cols)
       \/ "Pax_annual" \notin Range(public_transport_df.cols)
    THEN Placeholder("line", "Public Transport Data Missing or Incorrect")
    ELSE [NoFigure EXCEPT !.kind = "line",
                          !.title = "Public Transport Usage Over Time",
                          !.x = Column(public_transport_df, "Fin_year"),
                          !.y = Column(public_transport_df, "Pax_annual")]

\* df[df[c] == v]: the rows whose cell in column c equals v, in row order
RowsWhere(d, c, v) ==
    [d EXCEPT !.rows = PickIdx(d.rows, {i \in 1..Len(d.rows) : d.rows[i][c] = v}, 1)]

\* the filter applied to every value, the sentinel 'All' included
FilteredVehicleNoSentinel(selected_vehicle_type) ==
    RowsWhere(vehicle_registration_df, "CD_CL_FUEL_ENG", selected_vehicle_type)

\* lines 146-149: the dataframe the bar chart is drawn from.  Only called
\* when it does not raise (the column exists, or the filter is 'All').
FilteredVehicle(selected_vehicle_type) ==
    IF selected_vehicle_type = Str("All")
    THEN vehicle_registration_df
    ELSE RowsWhere(vehicle_registration_df, "CD_CL_FUEL_ENG", selected_vehicle_type)

\* f"Vehicle Registrations for {selected_vehicle_type}", kept as the value
\* that is formatted into it
BarTitle(selected_vehicle_type) ==
    IF selected_vehicle_type.t = "str" THEN selected_vehicle_type.s
    ELSE IF selected_vehicle_type.t = "none" THEN "None"
    ELSE "0"

\* a bar chart that keeps the first row of each postcode only
PxBarFirstPerPostcode(d, title) ==
    LET first == {i \in 1..Len(d.rows) :
                    \A j \in 1..(i - 1) : d.rows[j]["POSTCODE"] # d.rows[i]["POSTCODE"]}
        kept == PickIdx(d.rows, first, 1)
    IN [NoFigure EXCEPT !.kind = "bar", !.title = title,
                        !.x = [i \in 1..Len(kept) |-> kept[i]["POSTCODE"]],
                        !.y = [i \in 1..Len(kept) |-> kept[i]["TOTAL1"]]]

\* px.bar(df, x='POSTCODE', y='TOTAL1', title=...): one bar mark per row of
\* df, in row order, at x = POSTCODE with height TOTAL1 (no aggregation)
PxBar(d, title) ==
    [NoFigure EXCEPT !.kind = "bar", !.title = title,
                     !.x = Column(d, "POSTCODE"), !.y = Column(d, "TOTAL1")]

update_vehicle_registrations_graph(selected_vehicle_type) ==
    IF selected_vehicle_type # Str("All")
       /\ "CD_CL_FUEL_ENG" \notin Range(vehicle_registration_df.cols)
    THEN Raised("KeyError")
    ELSE LET d == FilteredVehicle(selected_vehicle_type)
         IN IF "POSTCODE" \notin Range(d.cols) \/ "TOTAL1" \notin Range(d.cols)
            THEN Placeholder("bar", "Vehicle Registration Data Missing or Incorrect")
            ELSE PxBar(d, BarTitle(selected_vehicle_type))

\* the bike map callback drawing the map only while the bike dataset is the
\* one selected
UpdateBikeInfrastructureMapForBikeOnly(selected_dataset) ==
    IF "Latitude" \notin Range(bicycle_network_df.cols)
       \/ "Longitude" \notin Range(bicycle_network_df.cols)
       \/ selected_dataset # Str("bike")
    THEN Placeholder("scatter_mapbox", "Bike Infrastructure Data Missing or Incorrect")
    ELSE IF ~({"local_name", "facility_left", "facility_right"}
                \subseteq Range(bicycle_network_df.cols))
    THEN Raised("ValueError")
    ELSE [NoFigure EXCEPT !.kind = "scatter_mapbox",
                          !.title = "Bike Infrastructure Distribution",
                          !.x = Column(bicycle_network_df, "Longitude"),
                          !.y = Column(bicycle_network_df, "Latitude"),
                          !.text = Column(bicycle_network_df, "local_name")]

update_bike_infrastructure_map(selected_dataset) ==
    IF "Latitude" \notin Range(bicycle_network_df.cols)
       \/ "Longitude" \notin Range(bicycle_network_df.cols)
    THEN Placeholder("scatter_mapbox", "Bike Infrastructure Data Missing or Incorrect")
    \* px.scatter_mapbox raises ValueError for a hover column that is no
    \* column of the dataframe
    ELSE IF ~({"local_name", "facility_left", "facility_right"}
                \subseteq Range(bicycle_network_df.cols))
    THEN Raised("ValueError")
    ELSE [NoFigure EXCEPT !.kind = "scatter_mapbox",
                          !.title = "Bike Infrastructure Distribution",
                          !.x = Column(bicycle_network_df, "Longitude"),
                          !.y = Column(bicycle_network_df, "Latitude"),
                          !.text = Column(bicycle_network_df, "local_name")]

-----------------------------------------------------------------------------
(* The input files.  A file is present or not; a present file has a header *)
(* and rows.                                                               *)

File(cols, rows) == [present |-> TRUE, cols |-> cols, rows |-> rows]
NoFile == [present |-> FALSE, cols |-> <<>>, rows |-> <<>>]

\* the file with the columns in `absent` left out
Without(file, absent) ==
    LET keep == PickIdx(file.cols, {i \in 1..Len(file.cols) : file.cols[i] \notin absent}, 1)
    IN File(keep, [i \in 1..Len(file.rows) |-> [c \in Range(keep) |-> file.rows[i][c]]])

VehicleHeader == <<"POSTCODE", "CD_CL_FUEL_ENG", "TOTAL1">>
TransportHeader == <<"Fin_year", "Stop_name", "Pax_annual">>
BikeHeader == <<"Latitude", "Longitude", "local_name", "facility_left", "facility_right">>

VehicleRow(postcode, fuel, total) ==
    [c \in Range(VehicleHeader) |->
        IF c = "POSTCODE" THEN postcode ELSE IF c = "CD_CL_FUEL_ENG" THEN fuel ELSE total]
TransportRow(year, name, pax) ==
    [c \in Range(TransportHeader) |->
        IF c = "Fin_year" THEN year ELSE IF c = "Stop_name" THEN name ELSE pax]
BikeRow(lat, lon, name, left, right) ==
    [c \in Range(BikeHeader) |->
        IF c = "Latitude" THEN lat ELSE IF c = "Longitude" THEN lon
        ELSE IF c = "local_name" THEN name
        ELSE IF c = "facility_left" THEN left ELSE right]

\* the rows of the example of the specification, section 8
ExampleVehicle ==
    File(VehicleHeader,
         <<VehicleRow(Num(3000), Str("P"), Num(10)),
           VehicleRow(Num(3000), Str("D"), Num(5)),
           VehicleRow(Num(3001), Str("P"), Num(7))>>)

ExampleTransport ==
    File(TransportHeader,
         <<TransportRow(Str("FY23"), Str("Richmond"), Num(9)),
           TransportRow(Str("FY22"), NaN, Num(4)),
           TransportRow(Str("FY24"), Str("Richmond"), NaN)>>)

ExampleBike ==
    File(BikeHeader,
         <<BikeRow(Num(-37), Num(144), Str("Yarra Trail"), Str("lane"), Str("lane")),
           BikeRow(NaN, Num(145), NaN, Str("path"), NaN),
           BikeRow(Num(-38), Num(145), Str("Bay Trail"), NaN, Str("path"))>>)

\* the columns some view requires
RequiredColumns ==
    {"POSTCODE", "TOTAL1", "CD_CL_FUEL_ENG", "Fin_year", "Pax_annual",
     "Latitude", "Longitude", "local_name"}

\* The example files, complete, or with one required column left out of its
\* header, or with one of the files missing.
HeaderInputs ==
    {[vehicle |-> Without(ExampleVehicle, A),
      transport |-> Without(ExampleTransport, A),
      bike |-> Without(ExampleBike, A)] :
        A \in {{}} \cup {{c} : c \in RequiredColumns}}

MissingFileInputs ==
    {[vehicle |-> NoFile, transport |-> ExampleTransport, bike |-> ExampleBike],
     [vehicle |-> ExampleVehicle, transport |-> NoFile, bike |-> ExampleBike],
     [vehicle |-> ExampleVehicle, transport |-> ExampleTransport, bike |-> NoFile]}

\* Vehicle files of up to MaxRows rows taken, in this order, from a pool:
\* the rows of the example, a row whose fuel type is the string "All", and
\* a row with missing fuel type and total.
VehiclePool ==
    <<VehicleRow(Num(3000), Str("P"), Num(10)),
      VehicleRow(Num(3000), Str("D"), Num(5)),
      VehicleRow(Num(3001), Str("P"), Num(7)),
      VehicleRow(Num(3001), Str("All"), Num(5)),
      VehicleRow(Num(3000), NaN, NaN)>>

VehicleInputs ==
    {[vehicle |-> File(VehicleHeader, PickIdx(VehiclePool, I, 1)),
      transport |-> ExampleTransport,
      bike |-> ExampleBike] :
        I \in {J \in SUBSET (1..Len(VehiclePool)) : Cardinality(J) <= MaxRows}}

\* Transport files of up to MaxRows rows taken, in this order, from a pool
\* that is not sorted by year: the rows of the example and a second row of
\* the first year.
TransportPool ==
    <<TransportRow(Str("FY23"), Str("Richmond"), Num(9)),
      TransportRow(Str("FY22"), NaN, Num(4)),
      TransportRow(Str("FY24"), Str("Richmond"), NaN),
      TransportRow(Str("FY23"), Str("Flinders"), Num(2))>>

TransportInputs ==
    {[vehicle |-> ExampleVehicle,
      transport |-> File(TransportHeader, PickIdx(TransportPool, I, 1)),
      bike |-> ExampleBike] :
        I \in {J \in SUBSET (1..Len(TransportPool)) : Cardinality(J) <= MaxRows}}

\* Bike files of up to MaxRows rows taken, in this order, from a pool: the
\* rows of the example (one without latitude and name) and a row without
\* longitude.
BikePool ==
    <<BikeRow(Num(-37), Num(144), Str("Yarra Trail"), Str("lane"), Str("lane")),
      BikeRow(NaN, Num(145), NaN, Str("path"), NaN),
      BikeRow(Num(-38), Num(145), Str("Bay Trail"), NaN, Str("path")),
      BikeRow(Num(-37), NaN, Str("Gap Road"), Str("lane"), Str("lane"))>>

BikeInputs ==
    {[vehicle |-> ExampleVehicle,
      transport |-> ExampleTransport,
      bike |-> File(BikeHeader, PickIdx(BikePool, I, 1))] :
        I \in {J \in SUBSET (1..Len(BikePool)) : Cardinality(J) <= MaxRows}}

-----------------------------------------------------------------------------
(* The script, top to bottom (src/app.py, lines 11-83 and 190-192).        *)

NoWidgets == [dataset_selector |-> None, column_selector |-> NoValue,
              color_scale_selector |-> None, vehicle_type_selector |-> None]
NoOptions == [column_selector |-> <<>>, vehicle_type_selector |-> <<>>]
NoFigures == [correlation_heatmap |-> NoFigure, public_transport_graph |-> NoFigure,
              vehicle_registrations_graph |-> NoFigure,
              bike_infrastructure_map |-> NoFigure]

ColorScales == {Str("Viridis"), Str("Cividis"), Str("Bluered"), Str("RdBu")}
Datasets == {Str("vehicle"), Str("transport"), Str("bike")}

InitWith(inputs) ==
    /\ files \in inputs
    /\ pc = "read_csv"
    /\ vehicle_registration_df = EmptyFrame
    /\ public_transport_df = EmptyFrame
    /\ bicycle_network_df = EmptyFrame
    /\ vehicle_registration_numeric = EmptyFrame
    /\ public_transport_numeric = EmptyFrame
    /\ bicycle_network_numeric = EmptyFrame
    /\ value = NoWidgets
    /\ options = NoOptions
    /\ figure = NoFigures
    /\ evaluated = {}

\* the example files, with a column or a file missing
Init == InitWith(HeaderInputs \cup MissingFileInputs)

\* lines 12-14: pd.read_csv raises FileNotFoundError for a missing file,
\* which ends the script
LoadDatasets ==
    /\ pc = "read_csv"
    /\ IF files.vehicle.present /\ files.transport.present /\ files.bike.present
       THEN /\ vehicle_registration_df' = ReadCsv(files.vehicle)
            /\ public_transport_df' = ReadCsv(files.transport)
            /\ bicycle_network_df' = ReadCsv(files.bike)
            /\ pc' = "fillna"
       ELSE /\ pc' = "FileNotFoundError"
            /\ UNCHANGED <<vehicle_registration_df, public_transport_df,
                           bicycle_network_df>>
    /\ UNCHANGED <<files, vehicle_registration_numeric, public_transport_numeric,
                   bicycle_network_numeric, value, options, figure, evaluated>>

\* lines 17-19
CleanDatasets ==
    /\ pc = "fillna"
    /\ vehicle_registration_df' = Fillna0(vehicle_registration_df)
    /\ public_transport_df' = Fillna0(public_transport_df)
    /\ bicycle_network_df' = Fillna0(bicycle_network_df)
    /\ pc' = "select_dtypes"
    /\ UNCHANGED <<files, vehicle_registration_numeric, public_transport_numeric,
                   bicycle_network_numeric, value, options, figure, evaluated>>

\* lines 22-24
FilterNumericColumns ==
    /\ pc = "select_dtypes"
    /\ vehicle_registration_numeric' = SelectDtypes(vehicle_registration_df)
    /\ public_transport_numeric' = SelectDtypes(public_transport_df)
    /\ bicycle_network_numeric' = SelectDtypes(bicycle_network_df)
    /\ pc' = "layout"
    /\ UNCHANGED <<files, vehicle_registration_df, public_transport_df,
                   bicycle_network_df, value, options, figure, evaluated>>

\* line 74: the options of vehicle-type-selector; KeyError without the column
VehicleTypeOptions ==
    Unique(Column(vehicle_registration_df, "CD_CL_FUEL_ENG"))

\* lines 27-83: the layout, with the initial values of the dropdowns
Layout ==
    /\ pc = "layout"
    /\ IF "CD_CL_FUEL_ENG" \in Range(vehicle_registration_df.cols)
       THEN /\ options' = [column_selector |-> <<>>,
                           vehicle_type_selector |-> VehicleTypeOptions]
            /\ value' = [dataset_selector |-> Str("vehicle"),
                         column_selector |-> NoValue,
                         color_scale_selector |-> Str("Viridis"),
                         vehicle_type_selector |-> Str("All")]
            /\ pc' = "run_server"
       ELSE /\ pc' = "KeyError"
            /\ UNCHANGED <<value, options>>
    /\ UNCHANGED <<files, frames, figure, evaluated>>

\* the five outputs of the callbacks (lines 87, 100, 129, 142, 175)
Outputs ==
    {"column_selector_options", "correlation_heatmap", "public_transport_graph",
     "vehicle_registrations_graph", "bike_infrastructure_map"}

\* the Inputs with the heatmap callback not listening to the colour scale
InputsWithoutColorScale(output) ==
    IF output = "correlation_heatmap" THEN {"dataset_selector", "column_selector"}
    ELSE IF output = "vehicle_registrations_graph" THEN {"vehicle_type_selector"}
    ELSE {"dataset_selector"}

\* the dropdowns whose value is an Input of the callback of an output
\* (lines 88, 101, 130, 143, 176)
Inputs(output) ==
    IF output = "correlation_heatmap"
    THEN {"dataset_selector", "column_selector", "color_scale_selector"}
    ELSE IF output = "vehicle_registrations_graph" THEN {"vehicle_type_selector"}
    ELSE {"dataset_selector"}

\* the outputs whose callback a change of the dropdowns ids triggers
Triggered(ids) == {o \in Outputs : Inputs(o) \cap ids # {}}

\* the callbacks that have a dropdown of ids among their inputs, evaluated
\* on the values v (lines 86-89, 99-102, 128-131, 141-144, 174-177)
Refresh(ids, v) ==
    LET run == Triggered(ids)
    IN /\ evaluated' = run
       /\ options' =
            IF "column_selector_options" \in run
            THEN [options EXCEPT
                    !.column_selector = update_columns_options(v.dataset_selector)]
            ELSE options
       /\ figure' =
            [correlation_heatmap |->
                IF "correlation_heatmap" \in run
                THEN update_correlation_heatmap(v.dataset_selector, v.column_selector,
                                                v.color_scale_selector)
                ELSE figure.correlation_heatmap,
             public_transport_graph |->
                IF "public_transport_graph" \in run
                THEN update_public_transport_graph(v.dataset_selector)
                ELSE figure.public_transport_graph,
             vehicle_registrations_graph |->
                IF "vehicle_registrations_graph" \in run
                THEN update_vehicle_registrations_graph(v.vehicle_type_selector)
                ELSE figure.vehicle_registrations_graph,
             bike_infrastructure_map |->
                IF "bike_infrastructure_map" \in run
                THEN update_bike_infrastructure_map(v.dataset_selector)
                ELSE figure.bike_infrastructure_map]

\* the server started right after fillna, before the numeric projections
\* and the layout exist
RunServerBeforeProjection ==
    /\ pc = "select_dtypes"
    /\ Refresh({"dataset_selector", "column_selector", "color_scale_selector",
                "vehicle_type_selector"}, value)
    /\ pc' = "serving"
    /\ UNCHANGED <<files, frames, value>>

\* line 192 and the first page load: every callback is evaluated once on
\* the initial values
RunServer ==
    /\ pc = "run_server"
    /\ Refresh({"dataset_selector", "column_selector", "color_scale_selector",
                "vehicle_type_selector"}, value)
    /\ pc' = "serving"
    /\ UNCHANGED <<files, frames, value>>

-----------------------------------------------------------------------------
(* User interaction: a dropdown gets a new value (an option, or no value   *)
(* when it is cleared), and the callbacks that depend on it are evaluated. *)

SelectDataset ==
    /\ pc = "serving"
    /\ \E v \in Datasets \cup {None} :
        /\ v # value.dataset_selector
        /\ value' = [value EXCEPT !.dataset_selector = v]
        /\ Refresh({"dataset_selector"}, value')
    /\ UNCHANGED <<files, pc, frames>>

\* a multi dropdown: an option not yet chosen is added at the end, or a
\* chosen column is removed
PickedColumns(cur) ==
    LET offered == {opt.value : opt \in Range(options.column_selector)}
    IN {Append(cur, c) : c \in {o \in offered : o \notin Range(cur) /\ Len(cur) < MaxSel}}
       \cup {PickIdx(cur, (1..Len(cur)) \ {i}, 1) : i \in 1..Len(cur)}

SelectColumns ==
    /\ pc = "serving"
    /\ \E q \in PickedColumns(value.column_selector.list) :
        /\ value' = [value EXCEPT !.column_selector = List(q)]
        /\ Refresh({"column_selector"}, value')
    /\ UNCHANGED <<files, pc, frames>>

SelectColorScale ==
    /\ pc = "serving"
    /\ \E v \in ColorScales \cup {None} :
        /\ v # value.color_scale_selector
        /\ value' = [value EXCEPT !.color_scale_selector = v]
        /\ Refresh({"color_scale_selector"}, value')
    /\ UNCHANGED <<files, pc, frames>>

\* a vehicle-type change whose callback keeps the filtered rows in the
\* module-level dataframe
SelectVehicleTypeInPlace ==
    /\ pc = "serving"
    /\ \E v \in Range(options.vehicle_type_selector) \cup {None} :
        /\ v # value.vehicle_type_selector
        /\ value' = [value EXCEPT !.vehicle_type_selector = v]
        /\ Refresh({"vehicle_type_selector"}, value')
        /\ vehicle_registration_df' = FilteredVehicle(v)
    /\ UNCHANGED <<files, pc, public_transport_df, bicycle_network_df,
                   vehicle_registration_numeric, public_transport_numeric,
                   bicycle_network_numeric>>

SelectVehicleType ==
    /\ pc = "serving"
    /\ \E v \in Range(options.vehicle_type_selector) \cup {None} :
        /\ v # value.vehicle_type_selector
        /\ value' = [value EXCEPT !.vehicle_type_selector = v]
        /\ Refresh({"vehicle_type_selector"}, value')
    /\ UNCHANGED <<files, pc, frames>>

Next ==
    \/ LoadDatasets
    \/ CleanDatasets
    \/ FilterNumericColumns
    \/ Layout
    \/ RunServer
    \/ SelectDataset
    \/ SelectColumns
    \/ SelectColorScale
    \/ SelectVehicleType

Spec == Init /\ [][Next]_vars

\* the same program on vehicle files of varying rows
InitVehicle == InitWith(VehicleInputs)

SpecVehicle == InitVehicle /\ [][Next]_vars

\* the same program on transport and bike files of varying rows
InitRows == InitWith(TransportInputs \cup BikeInputs)

SpecRows == InitRows /\ [][Next]_vars

-----------------------------------------------------------------------------
(* Vocabulary of the properties.                                           *)

\* the dataframes and their numeric projections are complete
StoreLoaded == pc \in {"layout", "run_server", "serving", "KeyError"}

\* an explicit "no data" figure: no data, and a title that says so
NoDataTitles ==
    {"Public Transport Data Missing or Incorrect",
     "Vehicle Registration Data Missing or Incorrect",
     "Bike Infrastructure Data Missing or Incorrect"}

IsNoData(f) ==
    /\ f.kind \in {"heatmap", "line", "bar", "scatter_mapbox"}
    /\ f.x = <<>> /\ f.y = <<>> /\ f.z = <<>>
    /\ f.title \in NoDataTitles

\* a figure with the data of its view
Renders(f) == f.kind \in {"heatmap", "line", "bar", "scatter_mapbox"} /\ ~IsNoData(f)

\* the columns of the three dataframes
LoadedColumns ==
    Range(vehicle_registration_df.cols) \cup Range(public_transport_df.cols)
        \cup Range(bicycle_network_df.cols)

\* the graph whose callback reads column c
ViewOf(c) ==
    IF c \in {"POSTCODE", "TOTAL1", "CD_CL_FUEL_ENG"} THEN "vehicle_registrations_graph"
    ELSE IF c \in {"Fin_year", "Pax_annual"} THEN "public_transport_graph"
    ELSE "bike_infrastructure_map"

DataViews ==
    {"public_transport_graph", "vehicle_registrations_graph", "bike_infrastructure_map"}

\* the values a vehicle-type filter is tried with
FilterValues == {Str("All"), Str("P"), Str("D"), Str("p"), Num(0), None}

\* the lists without repetition, of 1 to n elements, over the set S
RECURSIVE ListsOver(_, _)
ListsOver(S, n) ==
    IF n = 0 THEN {<<>>}
    ELSE LET shorter == ListsOver(S, n - 1)
         IN shorter \cup {Append(q, c) : q \in shorter, c \in S}

Selections(d) ==
    {q \in ListsOver(Range(d.cols), Len(d.cols)) :
        q # <<>> /\ Cardinality(Range(q)) = Len(q)}

-----------------------------------------------------------------------------
(* C1.  Per-view isolation: when a column that some view requires is       *)
(* absent from its dataset, start-up (the vehicle-type options included)   *)
(* still completes, the view that needs the column returns a "no data"     *)
(* figure, and the other views render normally.                            *)
(* The code does not do this: stated as the claim states it, TLC finds it  *)
(* violated (line 74 raises KeyError without CD_CL_FUEL_ENG; line 182      *)
(* raises ValueError without local_name).                                  *)
C1_PerViewIsolation ==
    \A c \in RequiredColumns \ LoadedColumns :
        /\ StoreLoaded => pc # "KeyError"
        /\ pc = "serving" =>
            /\ IsNoData(figure[ViewOf(c)])
            /\ \A v \in DataViews \ {ViewOf(c)} : Renders(figure[v])

-----------------------------------------------------------------------------
(* C2.  For every dataset key and colour scale, the heatmap of an empty    *)
(* column selection (None or the empty list) has the same matrix and the   *)
(* same row and column labels as the heatmap of all the columns of the     *)
(* dataset's numeric projection.                                           *)
C2_EmptySelectionIsAllColumns ==
    (pc = "serving" /\ value.dataset_selector \in Datasets) =>
        LET k == value.dataset_selector
            cs == value.color_scale_selector
            all == update_correlation_heatmap(k, List(NumericOf(k).cols), cs)
            SameChart(f) == f.kind = all.kind /\ f.z = all.z /\ f.x = all.x /\ f.y = all.y
        IN /\ \A empty \in {NoValue, List(<<>>)} :
                SameChart(update_correlation_heatmap(k, empty, cs))
           /\ value.column_selector.list = <<>> => SameChart(figure.correlation_heatmap)

\* the heatmap callback ran on a cleared column selection and drew the
\* correlations of two columns
C2_Witness ==
    /\ pc = "serving"
    /\ value.column_selector = List(<<>>)
    /\ figure.correlation_heatmap.kind = "heatmap"
    /\ Len(figure.correlation_heatmap.x) = 2
    /\ figure.correlation_heatmap.z[1][2] \notin {CorrNaN, CorrOne}

-----------------------------------------------------------------------------
(* C3.  The heatmap callback returns an explicit "no data" figure, and     *)
(* does not raise, whenever the numeric projection of the selected dataset *)
(* has no column or fewer than two columns are to be correlated.           *)
(* The code has no such case: stated as the claim states it, TLC finds it  *)
(* violated (a 1x1 heatmap for one column, IndexError for none).           *)
C3_DegenerateHeatmapIsNoData ==
    (pc = "serving" /\ value.dataset_selector \in Datasets) =>
        LET d == NumericOf(value.dataset_selector)
            sc == value.column_selector
            effective == IF sc.list = <<>> THEN d.cols ELSE sc.list
        IN (Range(effective) \subseteq Range(d.cols) /\ Len(effective) < 2) =>
                IsNoData(figure.correlation_heatmap)

-----------------------------------------------------------------------------
(* C4.  For every dataset and every non-empty selection S of its numeric   *)
(* columns, the matrix of the heatmap is square, is labelled by S on both  *)
(* axes, is symmetric, and has 1.0 on the diagonal for a column that is    *)
(* not constant and NaN for a constant one.                                *)

IsConstant(d, c) == Cardinality(Range(Column(d, c))) <= 1

\* f is the heatmap of the columns S of dataframe d
IsCorrelationChart(f, d, S) ==
    /\ f.kind = "heatmap"
    /\ f.x = S /\ f.y = S
    /\ Len(f.z) = Len(S)
    /\ \A i \in 1..Len(S) :
        /\ Len(f.z[i]) = Len(S)
        /\ \A j \in 1..Len(S) : f.z[i][j] = f.z[j][i]
        /\ f.z[i][i] = IF IsConstant(d, S[i]) THEN CorrNaN ELSE CorrOne

C4_MatrixSquareSymmetricUnitDiagonal ==
    (pc = "serving" /\ value.dataset_selector \in Datasets) =>
        LET k == value.dataset_selector
            d == NumericOf(k)
        IN /\ \A S \in Selections(d) :
                IsCorrelationChart(
                    update_correlation_heatmap(k, List(S), value.color_scale_selector),
                    d, S)
           /\ figure.correlation_heatmap.kind = "heatmap" =>
                IsCorrelationChart(figure.correlation_heatmap, d,
                                   figure.correlation_heatmap.x)

\* the heatmap on screen correlates POSTCODE and TOTAL1 of the vehicle
\* dataset: a negative coefficient off the diagonal, 1.0 on it
C4_Witness ==
    /\ pc = "serving"
    /\ value.dataset_selector = Str("vehicle")
    /\ figure.correlation_heatmap.kind = "heatmap"
    /\ figure.correlation_heatmap.x = <<"POSTCODE", "TOTAL1">>
    /\ figure.correlation_heatmap.z[1][2].sign = -1
    /\ figure.correlation_heatmap.z[2][1].sign = -1
    /\ figure.correlation_heatmap.z[1][1] = CorrOne

-----------------------------------------------------------------------------
(* C5.  When a column to correlate is constant (a column that was all      *)
(* missing and was filled with 0 included), the heatmap callback still     *)
(* returns a chart, and every correlation that involves the column is NaN. *)

ConstantColumnIsNaN(f, d, S) ==
    \A i \in 1..Len(S) :
        IsConstant(d, S[i]) =>
            /\ f.kind = "heatmap"
            /\ \A j \in 1..Len(S) : f.z[i][j] = CorrNaN /\ f.z[j][i] = CorrNaN

C5_ConstantColumnGivesNaN ==
    (pc = "serving" /\ value.dataset_selector \in Datasets) =>
        LET k == value.dataset_selector
            d == NumericOf(k)
        IN /\ \A S \in Selections(d) :
                ConstantColumnIsNaN(
                    update_correlation_heatmap(k, List(S), value.color_scale_selector),
                    d, S)
           /\ figure.correlation_heatmap.kind # "raised" =>
                ConstantColumnIsNaN(figure.correlation_heatmap, d,
                                    figure.correlation_heatmap.x)

\* TOTAL1 is missing in every row of the vehicle file, was filled with 0,
\* and the heatmap on screen reports NaN for it
C5_Witness ==
    /\ pc = "serving"
    /\ value.dataset_selector = Str("vehicle")
    /\ files.vehicle.rows # <<>>
    /\ "TOTAL1" \in Range(files.vehicle.cols)
    /\ \A i \in 1..Len(files.vehicle.rows) : files.vehicle.rows[i]["TOTAL1"] = NaN
    /\ \A i \in 1..Len(vehicle_registration_df.rows) :
            vehicle_registration_df.rows[i]["TOTAL1"] = Num(0)
    /\ figure.correlation_heatmap.kind = "heatmap"
    /\ \E i \in 1..Len(figure.correlation_heatmap.x) :
        /\ figure.correlation_heatmap.x[i] = "TOTAL1"
        /\ figure.correlation_heatmap.z[i][i] = CorrNaN

-----------------------------------------------------------------------------
(* C6.  The rows the postcode bar view uses are all the rows of the        *)
(* vehicle dataset for the filter "All", and otherwise exactly the rows    *)
(* whose CD_CL_FUEL_ENG equals the filter value (case-sensitive): no other *)
(* row is included and no such row is left out.                            *)

\* the indices of the rows of the vehicle dataset that filter value t keeps
Matching(t) ==
    {i \in 1..Len(vehicle_registration_df.rows) :
        t = Str("All") \/ vehicle_registration_df.rows[i]["CD_CL_FUEL_ENG"] = t}

C6_FilterKeepsExactlyMatchingRows ==
    pc = "serving" =>
        /\ \A t \in FilterValues \cup {value.vehicle_type_selector} :
            LET used == FilteredVehicle(t).rows
            IN /\ Len(used) = Cardinality(Matching(t))
               /\ Range(used) = {vehicle_registration_df.rows[i] : i \in Matching(t)}
        /\ Renders(figure.vehicle_registrations_graph) =>
            Len(figure.vehicle_registrations_graph.x)
                = Cardinality(Matching(value.vehicle_type_selector))

\* the bar view was evaluated for "P" and kept two of three rows
C6_Witness ==
    /\ pc = "serving"
    /\ value.vehicle_type_selector = Str("P")
    /\ Len(vehicle_registration_df.rows) = 3
    /\ figure.vehicle_registrations_graph.kind = "bar"
    /\ Len(figure.vehicle_registrations_graph.x) = 2

-----------------------------------------------------------------------------
(* Totals of the vehicle dataset and of a bar chart.                       *)

\* the sum of TOTAL1 over the rows of the vehicle dataset with index in I
RECURSIVE TotalOfRows(_)
TotalOfRows(I) ==
    IF I = {} THEN 0
    ELSE LET i == CHOOSE j \in I : TRUE
         IN vehicle_registration_df.rows[i]["TOTAL1"].n + TotalOfRows(I \ {i})

\* the rows among I with postcode p
AtPostcode(I, p) == {i \in I : vehicle_registration_df.rows[i]["POSTCODE"] = p}

\* the heights of the bars of f, and of those drawn at postcode p
Heights(f) == [j \in 1..Len(f.y) |-> f.y[j].n]
HeightsAt(f, p) == [j \in 1..Len(f.y) |-> IF f.x[j] = p THEN f.y[j].n ELSE 0]

-----------------------------------------------------------------------------
(* C7.  The postcode bar view emits exactly one bar per distinct POSTCODE  *)
(* of the filtered rows, whose height is the sum of TOTAL1 over the        *)
(* filtered rows of that postcode.                                         *)
(* The code draws the rows without aggregating them (one bar mark per      *)
(* row): stated as the claim states it, TLC finds it violated.             *)
C7_OneBarPerPostcode ==
    (pc = "serving" /\ Renders(figure.vehicle_registrations_graph)) =>
        LET f == figure.vehicle_registrations_graph
            I == Matching(value.vehicle_type_selector)
        IN /\ Range(f.x) = {vehicle_registration_df.rows[i]["POSTCODE"] : i \in I}
           /\ Len(f.x) = Cardinality(Range(f.x))
           /\ \A j \in 1..Len(f.x) : f.y[j].n = TotalOfRows(AtPostcode(I, f.x[j]))

-----------------------------------------------------------------------------
(* C8.  For every vehicle-type filter value, the heights of the bars of    *)
(* the postcode bar view add up to the sum of TOTAL1 over the filtered     *)
(* rows.                                                                   *)
C8_AggregationIsLossless ==
    pc = "serving" =>
        /\ \A t \in FilterValues \cup {value.vehicle_type_selector} :
            LET f == update_vehicle_registrations_graph(t)
            IN Renders(f) => SeqSum(Heights(f)) = TotalOfRows(Matching(t))
        /\ Renders(figure.vehicle_registrations_graph) =>
            SeqSum(Heights(figure.vehicle_registrations_graph))
                = TotalOfRows(Matching(value.vehicle_type_selector))

\* the bar view drew the three rows of the example under "All": two marks
\* at postcode 3000, one at 3001, 22 vehicles in all
C8_Witness ==
    /\ pc = "serving"
    /\ value.vehicle_type_selector = Str("All")
    /\ Renders(figure.vehicle_registrations_graph)
    /\ figure.vehicle_registrations_graph.x = <<Num(3000), Num(3000), Num(3001)>>
    /\ SeqSum(Heights(figure.vehicle_registrations_graph)) = 22

-----------------------------------------------------------------------------
(* C9.  For every postcode p, the total of p under "All" equals the sum,   *)
(* over every distinct value t of CD_CL_FUEL_ENG in the vehicle dataset,   *)
(* of the total of p under filter t; and the postcodes shown under "All"   *)
(* contain those shown under any single-type filter.                       *)
(* A fuel type spelled "All" is taken for the sentinel, so its filter      *)
(* shows every row: stated as the claim states it, TLC finds it violated.  *)

RECURSIVE TotalOverTypes(_, _)
\* the sum over the filter values ts of the total drawn at postcode p
TotalOverTypes(ts, p) ==
    IF ts = <<>> THEN 0
    ELSE SeqSum(HeightsAt(update_vehicle_registrations_graph(Head(ts)), p))
            + TotalOverTypes(Tail(ts), p)

C9_AllIsSumOfSingleTypes ==
    (pc = "serving" /\ Renders(update_vehicle_registrations_graph(Str("All")))) =>
        LET all == update_vehicle_registrations_graph(Str("All"))
            types == VehicleTypeOptions
        IN /\ \A p \in Range(Column(vehicle_registration_df, "POSTCODE")) :
                SeqSum(HeightsAt(all, p)) = TotalOverTypes(types, p)
           /\ \A t \in Range(types) :
                Range(update_vehicle_registrations_graph(t).x) \subseteq Range(all.x)

-----------------------------------------------------------------------------
(* C10.  If POSTCODE, TOTAL1 or CD_CL_FUEL_ENG is absent from the vehicle  *)
(* dataset, the postcode bar view returns the explicit "no data" figure    *)
(* for every filter value, and does not raise.                             *)
(* Line 151 tests POSTCODE and TOTAL1 only, after line 149 has read        *)
(* CD_CL_FUEL_ENG: stated as the claim states it, TLC finds it violated.   *)
C10_MissingVehicleColumnIsNoData ==
    (StoreLoaded
     /\ ~({"POSTCODE", "TOTAL1", "CD_CL_FUEL_ENG"} \subseteq Range(vehicle_registration_df.cols)))
        => \A t \in FilterValues : IsNoData(update_vehicle_registrations_graph(t))

-----------------------------------------------------------------------------
(* C11.  When the vehicle-type filter matches no row of the vehicle        *)
(* dataset (a value that is no CD_CL_FUEL_ENG value, or the cleared        *)
(* selector), the postcode bar view returns an explicit "no data" figure   *)
(* rather than an empty bar chart.                                         *)
(* Line 151 tests the columns only, so px.bar draws the empty dataframe    *)
(* under the title of the filter: stated as the claim states it, TLC       *)
(* finds it violated.                                                      *)
C11_EmptyFilterIsNoData ==
    pc = "serving" =>
        /\ \A t \in FilterValues \cup {value.vehicle_type_selector} :
            Matching(t) = {} => IsNoData(update_vehicle_registrations_graph(t))
        /\ Matching(value.vehicle_type_selector) = {} =>
            IsNoData(figure.vehicle_registrations_graph)

-----------------------------------------------------------------------------
(* C12.  If Fin_year or Pax_annual is absent from the transport dataset,   *)
(* the time-series callback returns, without raising, a placeholder figure *)
(* whose title says that the data is missing; if both are present it       *)
(* returns the line chart over the dataset.                                *)

\* f is what the time-series view owes for the transport dataset as loaded
TransportChartAsClaimed(f) ==
    IF {"Fin_year", "Pax_annual"} \subseteq Range(public_transport_df.cols)
    THEN /\ f.kind = "line"
         /\ f.title \notin NoDataTitles
         /\ Len(f.x) = Len(public_transport_df.rows)
         /\ Len(f.y) = Len(public_transport_df.rows)
    ELSE /\ f.kind = "line"
         /\ IsNoData(f)
         /\ f.title = "Public Transport Data Missing or Incorrect"

C12_TransportPlaceholderOrLineChart ==
    /\ StoreLoaded =>
        \A k \in Datasets \cup {None} :
            TransportChartAsClaimed(update_public_transport_graph(k))
    /\ pc = "serving" => TransportChartAsClaimed(figure.public_transport_graph)

\* the transport file has no Pax_annual column and the view on screen is
\* the placeholder
C12_Witness ==
    /\ pc = "serving"
    /\ "Fin_year" \in Range(public_transport_df.cols)
    /\ "Pax_annual" \notin Range(public_transport_df.cols)
    /\ public_transport_df.rows # <<>>
    /\ figure.public_transport_graph
        = Placeholder("line", "Public Transport Data Missing or Incorrect")

-----------------------------------------------------------------------------
(* C13.  When Fin_year and Pax_annual are present, the time-series view    *)
(* emits one point per row of the transport dataset in row order: point i  *)
(* is (Fin_year, Pax_annual) of row i; no row is re-sorted, dropped or     *)
(* merged with another.                                                    *)

\* the points of f are the rows of the transport dataset, in order
OnePointPerTransportRow(f) ==
    /\ f.kind = "line"
    /\ Len(f.x) = Len(public_transport_df.rows)
    /\ Len(f.y) = Len(public_transport_df.rows)
    /\ \A i \in 1..Len(public_transport_df.rows) :
        /\ f.x[i] = public_transport_df.rows[i]["Fin_year"]
        /\ f.y[i] = public_transport_df.rows[i]["Pax_annual"]

C13_OnePointPerRowInRowOrder ==
    (StoreLoaded
     /\ {"Fin_year", "Pax_annual"} \subseteq Range(public_transport_df.cols)) =>
        /\ \A k \in Datasets \cup {None} :
            OnePointPerTransportRow(update_public_transport_graph(k))
        /\ pc = "serving" => OnePointPerTransportRow(figure.public_transport_graph)

\* the view on screen shows three rows whose years are out of order and
\* repeat: FY23, FY22, FY23
C13_Witness ==
    /\ pc = "serving"
    /\ figure.public_transport_graph.kind = "line"
    /\ figure.public_transport_graph.x = <<Str("FY23"), Str("FY22"), Str("FY23")>>
    /\ figure.public_transport_graph.y = <<Num(9), Num(4), Num(2)>>

-----------------------------------------------------------------------------
(* C14.  A row of the bike file whose Latitude or Longitude is missing is  *)
(* never among the points of the bike map: the number of points equals the *)
(* number of input rows with both coordinates.                             *)
(* fillna(0) turns a missing coordinate into 0 and nothing drops the row,  *)
(* so it is drawn at latitude or longitude 0: stated as the claim states   *)
(* it, TLC finds it violated.                                              *)

\* the rows of the bike file that have both coordinates
WithCoordinates ==
    {i \in 1..Len(files.bike.rows) :
        /\ files.bike.rows[i]["Latitude"] # NaN
        /\ files.bike.rows[i]["Longitude"] # NaN}

C14_RowsWithoutCoordinatesAreDropped ==
    (pc = "serving" /\ Renders(figure.bike_infrastructure_map)) =>
        LET f == figure.bike_infrastructure_map
        IN /\ Len(f.x) = Cardinality(WithCoordinates)
           /\ Len(f.y) = Cardinality(WithCoordinates)
           /\ \A j \in 1..Len(f.x) :
                \E i \in WithCoordinates :
                    /\ f.x[j] = files.bike.rows[i]["Longitude"]
                    /\ f.y[j] = files.bike.rows[i]["Latitude"]

-----------------------------------------------------------------------------
(* C15.  If Latitude, Longitude or local_name is absent from the bike      *)
(* dataset, the bike map callback returns the explicit "no data" figure    *)
(* and does not raise.                                                     *)
(* Line 179 tests Latitude and Longitude only, and px.scatter_mapbox       *)
(* raises for a hover_name that is no column: stated as the claim states   *)
(* it, TLC finds it violated.                                              *)
C15_MissingBikeColumnIsNoData ==
    (StoreLoaded
     /\ ~({"Latitude", "Longitude", "local_name"} \subseteq Range(bicycle_network_df.cols)))
        => /\ \A k \in Datasets \cup {None} : IsNoData(update_bike_infrastructure_map(k))
           /\ pc = "serving" => IsNoData(figure.bike_infrastructure_map)

-----------------------------------------------------------------------------
(* C16.  The bike map and the time-series view do not depend on the        *)
(* dataset selector: on one store, any two dataset keys give the same      *)
(* outcome of update_bike_infrastructure_map and the same outcome of       *)
(* update_public_transport_graph, and so does the key the figures on       *)
(* screen were evaluated with.                                             *)
C16_DatasetKeyIsIgnored ==
    /\ StoreLoaded =>
        \* equal to the outcome for one key, hence equal to each other
        \A k \in Datasets \cup {None} :
            /\ update_bike_infrastructure_map(k)
                = update_bike_infrastructure_map(Str("vehicle"))
            /\ update_public_transport_graph(k)
                = update_public_transport_graph(Str("vehicle"))
    /\ pc = "serving" =>
        \A k \in Datasets \cup {None} :
            /\ figure.bike_infrastructure_map = update_bike_infrastructure_map(k)
            /\ figure.public_transport_graph = update_public_transport_graph(k)

\* both views were evaluated again after the selector left its initial
\* value, and show their data
C16_Witness ==
    /\ pc = "serving"
    /\ value.dataset_selector \in {Str("transport"), None}
    /\ figure.bike_infrastructure_map.kind = "scatter_mapbox"
    /\ Len(figure.bike_infrastructure_map.x) = 3
    /\ figure.public_transport_graph.kind = "line"
    /\ Len(figure.public_transport_graph.x) = 3

-----------------------------------------------------------------------------
(* C17.  After load and normalization the three datasets are never         *)
(* modified: whatever selections are made and views evaluated, the rows,   *)
(* columns and values of each dataset are those it had right after the     *)
(* files were read and their missing cells filled.                         *)

\* the script is past lines 12-19
Normalized == pc \in {"select_dtypes", "layout", "run_server", "serving", "KeyError"}

C17_StoreIsReadOnlyAfterLoad ==
    Normalized =>
        /\ vehicle_registration_df = Fillna0(ReadCsv(files.vehicle))
        /\ public_transport_df = Fillna0(ReadCsv(files.transport))
        /\ bicycle_network_df = Fillna0(ReadCsv(files.bike))

\* every dropdown has left its initial value, the bar view shows fewer rows
\* than the vehicle dataset has, and the heatmap shows a chosen column
C17_Witness ==
    /\ pc = "serving"
    /\ value.dataset_selector = Str("bike")
    /\ value.color_scale_selector = Str("RdBu")
    /\ value.vehicle_type_selector = Str("D")
    /\ value.column_selector.list # <<>>
    /\ figure.correlation_heatmap.kind = "heatmap"
    /\ figure.vehicle_registrations_graph.kind = "bar"
    /\ Len(figure.vehicle_registrations_graph.x) = 1
    /\ Len(vehicle_registration_df.rows) = 3

-----------------------------------------------------------------------------
(* The numeric projections.                                                *)

\* the columns of d whose values are all numbers (integer or float)
AllNumericColumns(d) ==
    {c \in Range(d.cols) : \A i \in 1..Len(d.rows) : d.rows[i][c].t = "num"}

\* the projection p of dataset d is what select_dtypes gave at load, and
\* its columns are columns of d
ProjectionOf(p, d) == p = SelectDtypes(d) /\ Range(p.cols) \subseteq Range(d.cols)

-----------------------------------------------------------------------------
(* C18.  In every state with the store loaded, each numeric projection has *)
(* only columns of its parent dataset, is what select_dtypes computed from *)
(* the parent at load (no view evaluation changes it), and holds exactly   *)
(* the columns read as int64 or float64: for a dataset with at least one   *)
(* row these are exactly the columns whose values are all integer or       *)
(* float, and for a dataset without rows (every column is read as object)  *)
(* the projection has no column.                                           *)

ProjectionAsComputed(p, d) ==
    /\ ProjectionOf(p, d)
    /\ IF d.rows = <<>> THEN p.cols = <<>>
       ELSE Range(p.cols) = AllNumericColumns(d)

C18_ProjectionIsNumericColumnsOfNonEmpty ==
    StoreLoaded =>
        /\ ProjectionAsComputed(vehicle_registration_numeric, vehicle_registration_df)
        /\ ProjectionAsComputed(public_transport_numeric, public_transport_df)
        /\ ProjectionAsComputed(bicycle_network_numeric, bicycle_network_df)

\* C18 as the claim states it: the projection holds exactly the columns
\* whose values are all integer or float, whatever the number of rows.
\* TLC finds it violated on a vehicle file that has a header and no rows.
ProjectionAsClaimed(p, d) ==
    /\ ProjectionOf(p, d)
    /\ Range(p.cols) = AllNumericColumns(d)

C18_ProjectionIsExactlyAllNumericColumns ==
    StoreLoaded =>
        /\ ProjectionAsClaimed(vehicle_registration_numeric, vehicle_registration_df)
        /\ ProjectionAsClaimed(public_transport_numeric, public_transport_df)
        /\ ProjectionAsClaimed(bicycle_network_numeric, bicycle_network_df)

\* TOTAL1 has a missing cell in the vehicle file, was read as float64 and
\* is in the projection next to POSTCODE; CD_CL_FUEL_ENG is not; views have
\* been evaluated for another dataset since
C18_Witness ==
    /\ pc = "serving"
    /\ value.dataset_selector = Str("transport")
    /\ "TOTAL1" \in Range(files.vehicle.cols)
    /\ Len(files.vehicle.rows) >= 2
    /\ \E i \in 1..Len(files.vehicle.rows) : files.vehicle.rows[i]["TOTAL1"] = NaN
    /\ vehicle_registration_numeric.cols = <<"POSTCODE", "TOTAL1">>
    /\ public_transport_numeric.cols = <<"Pax_annual">>

-----------------------------------------------------------------------------
(* C19.  After normalization, in every state in which a view can be        *)
(* evaluated, no cell of a column that a view reads (CD_CL_FUEL_ENG,       *)
(* POSTCODE, TOTAL1, Fin_year, Pax_annual, Latitude, Longitude,            *)
(* local_name, facility_left, facility_right, and every column of a        *)
(* numeric projection) is missing.                                         *)

ViewColumns ==
    {"CD_CL_FUEL_ENG", "POSTCODE", "TOTAL1", "Fin_year", "Pax_annual", "Latitude",
     "Longitude", "local_name", "facility_left", "facility_right"}

\* no cell of the columns C of dataframe d is missing
NoMissing(d, C) ==
    \A i \in 1..Len(d.rows) : \A c \in C \cap Range(d.cols) : d.rows[i][c] # NaN

C19_NoMissingCellInViewColumns ==
    pc \in {"run_server", "serving"} =>
        /\ NoMissing(vehicle_registration_df, ViewColumns)
        /\ NoMissing(public_transport_df, ViewColumns)
        /\ NoMissing(bicycle_network_df, ViewColumns)
        /\ \A p \in {vehicle_registration_numeric, public_transport_numeric,
                     bicycle_network_numeric} : NoMissing(p, Range(p.cols))
        /\ \A v \in DataViews :
            NaN \notin Range(figure[v].x) \cup Range(figure[v].y) \cup Range(figure[v].text)

\* the second row of the bike file has no latitude and no name, the third
\* no facility_left; the served dataset holds 0 in their place and the map
\* draws the row
C19_Witness ==
    /\ pc = "serving"
    /\ {"Latitude", "local_name", "facility_left"} \subseteq Range(files.bike.cols)
    /\ Len(files.bike.rows) = 3
    /\ files.bike.rows[2]["Latitude"] = NaN
    /\ files.bike.rows[2]["local_name"] = NaN
    /\ files.bike.rows[3]["facility_left"] = NaN
    /\ bicycle_network_df.rows[2]["Latitude"] = Num(0)
    /\ bicycle_network_df.rows[2]["local_name"] = Num(0)
    /\ bicycle_network_df.rows[3]["facility_left"] = Num(0)
    /\ figure.bike_infrastructure_map.kind = "scatter_mapbox"
    /\ figure.bike_infrastructure_map.text[2] = Num(0)

-----------------------------------------------------------------------------
(* C20.  Normalization is per column type: a missing cell of a numeric     *)
(* column becomes 0, a missing cell of a designated categorical column     *)
(* becomes the string "Unknown", a column on neither list is left as       *)
(* loaded, and no string column receives the number 0.                     *)
(* Lines 17-19 fill every missing cell of every column with 0: stated as   *)
(* the claim states it, TLC finds it violated.                             *)

\* the categorical columns of the three files
DesignatedCategorical ==
    {"CD_CL_FUEL_ENG", "Stop_name", "local_name", "facility_left", "facility_right"}

\* dataframe d is the per-type normalization of what read_csv gave for file
NormalizedPerType(d, file) ==
    LET raw == ReadCsv(file)
    IN /\ d.cols = raw.cols
       /\ Len(d.rows) = Len(raw.rows)
       /\ \A i \in 1..Len(raw.rows) : \A k \in 1..Len(raw.cols) :
            LET c == raw.cols[k]
                was == raw.rows[i][c]
                now == d.rows[i][c]
            IN IF was # NaN THEN now = was
               ELSE IF c \in DesignatedCategorical THEN now = Str("Unknown")
               ELSE IF raw.dtypes[k] \in {"float64", "int64"} THEN now = Num(0)
               ELSE now = was

C20_NormalizationIsPerColumnType ==
    Normalized =>
        /\ NormalizedPerType(vehicle_registration_df, files.vehicle)
        /\ NormalizedPerType(public_transport_df, files.transport)
        /\ NormalizedPerType(bicycle_network_df, files.bike)

-----------------------------------------------------------------------------
(* C21.  If an input file is missing at startup, its dataset is replaced   *)
(* by an empty table and startup goes on to the point where views can be   *)
(* evaluated: the process never ends because of the missing file.          *)
(* pd.read_csv raises FileNotFoundError at module level and nothing        *)
(* catches it: stated as the claim states it, TLC finds it violated.       *)

\* the dataframe read from a file, by the name of the file
FrameOf(name) ==
    IF name = "vehicle" THEN vehicle_registration_df
    ELSE IF name = "transport" THEN public_transport_df
    ELSE bicycle_network_df

C21_MissingFileIsEmptyTable ==
    \A name \in DOMAIN files :
        (~files[name].present /\ pc # "read_csv") =>
            /\ pc # "FileNotFoundError"
            /\ FrameOf(name).rows = <<>>

-----------------------------------------------------------------------------
(* C22.  A change of one dropdown re-evaluates exactly the views that      *)
(* depend on it: a colour-scale or column-selection change only the        *)
(* heatmap, a vehicle-type change only the postcode bar view, a dataset    *)
(* change the column options and the heatmap and no view that does not     *)
(* use the dataset key.                                                    *)
(* The time-series and bike map callbacks declare dataset-selector as      *)
(* their Input (lines 130, 176) though they ignore its value, so a dataset *)
(* change evaluates them too: stated as the claim states it, TLC finds it  *)
(* violated.                                                               *)

\* the dropdowns whose value a step changes
Changed == {id \in DOMAIN value : value'[id] # value[id]}

ExactlyDependentViewsRun ==
    (pc = "serving" /\ pc' = "serving") =>
        /\ Changed = {"color_scale_selector"} => evaluated' = {"correlation_heatmap"}
        /\ Changed = {"column_selector"} => evaluated' = {"correlation_heatmap"}
        /\ Changed = {"vehicle_type_selector"} =>
                evaluated' = {"vehicle_registrations_graph"}
        /\ Changed = {"dataset_selector"} =>
                evaluated' = {"column_selector_options", "correlation_heatmap"}

C22_ExactlyDependentViewsReevaluated == [][ExactlyDependentViewsRun]_vars

-----------------------------------------------------------------------------
(* C23.  Every view is a function of the store and the current selection   *)
(* only: whatever sequence of changes led to a selection, each figure on   *)
(* screen, and the column options, are what the callback gives for the     *)
(* store and the current values of the dropdowns (no cache, no history).   *)
C23_ViewsAreFunctionsOfStoreAndSelection ==
    pc = "serving" =>
        /\ figure.correlation_heatmap
            = update_correlation_heatmap(value.dataset_selector, value.column_selector,
                                         value.color_scale_selector)
        /\ figure.public_transport_graph
            = update_public_transport_graph(value.dataset_selector)
        /\ figure.vehicle_registrations_graph
            = update_vehicle_registrations_graph(value.vehicle_type_selector)
        /\ figure.bike_infrastructure_map
            = update_bike_infrastructure_map(value.dataset_selector)
        /\ options.column_selector = update_columns_options(value.dataset_selector)

\* the selection is back at a state it had before, by another route: the
\* dataset and colour scale of the page load, the vehicle type changed,
\* the column selection emptied by the user, and a heatmap-only event last
C23_Witness ==
    /\ pc = "serving"
    /\ evaluated = {"correlation_heatmap"}
    /\ value.dataset_selector = Str("vehicle")
    /\ value.color_scale_selector = Str("Viridis")
    /\ value.vehicle_type_selector = Str("D")
    /\ value.column_selector = List(<<>>)
    /\ figure.correlation_heatmap.kind = "heatmap"
    /\ figure.correlation_heatmap.colorscale = Str("Viridis")
    /\ Len(figure.vehicle_registrations_graph.x) = 1

-----------------------------------------------------------------------------
(* C24.  No view is evaluated before the three datasets are loaded,        *)
(* normalized and projected: read_csv, fillna and select_dtypes each run   *)
(* once, in this order, for all three datasets, before the first callback  *)
(* evaluation, and none of them runs after it.                             *)

\* some callback has been evaluated
SomeViewEvaluated ==
    evaluated # {} \/ figure # NoFigures \/ options.column_selector # <<>>

\* the dataframes are those of one read_csv and one fillna of each file,
\* the projections those of one select_dtypes of each dataframe
LoadedOnce ==
    /\ vehicle_registration_df = Fillna0(ReadCsv(files.vehicle))
    /\ public_transport_df = Fillna0(ReadCsv(files.transport))
    /\ bicycle_network_df = Fillna0(ReadCsv(files.bike))
    /\ vehicle_registration_numeric = SelectDtypes(vehicle_registration_df)
    /\ public_transport_numeric = SelectDtypes(public_transport_df)
    /\ bicycle_network_numeric = SelectDtypes(bicycle_network_df)

C24_LoadPrecedesFirstEvaluation ==
    /\ SomeViewEvaluated => (pc = "serving" /\ LoadedOnce)
    /\ pc = "serving" => (LoadedOnce /\ evaluated # {})
    /\ pc \in {"read_csv", "fillna", "select_dtypes"} =>
        /\ ~SomeViewEvaluated
        /\ vehicle_registration_numeric = EmptyFrame
        /\ public_transport_numeric = EmptyFrame
        /\ bicycle_network_numeric = EmptyFrame
    /\ pc = "fillna" =>
        /\ vehicle_registration_df = ReadCsv(files.vehicle)
        /\ public_transport_df = ReadCsv(files.transport)
        /\ bicycle_network_df = ReadCsv(files.bike)

\* the page load has just evaluated all five callbacks, on dataframes whose
\* missing cells were filled and whose projections have columns
C24_Witness ==
    /\ pc = "serving"
    /\ evaluated = Outputs
    /\ LoadedOnce
    /\ \E i \in 1..Len(files.transport.rows) : \E c \in Range(files.transport.cols) :
            files.transport.rows[i][c] = NaN
    /\ public_transport_numeric.cols # <<>>
    /\ bicycle_network_numeric.cols # <<>>
    /\ figure.public_transport_graph.kind = "line"

-----------------------------------------------------------------------------
(* C25.  The options of the vehicle-type selector are exactly the distinct *)
(* values of CD_CL_FUEL_ENG of the vehicle dataset plus the sentinel       *)
(* "All"; so in every state with a chosen value, the initial "All"         *)
(* included, the value of the selector is one of its options.              *)
(* Line 74 builds the options from the distinct values alone and line 75   *)
(* sets the value 'All': stated as the claim states it, TLC finds it       *)
(* violated.                                                               *)
C25_VehicleTypeValueIsAnOption ==
    pc \in {"run_server", "serving"} =>
        /\ Range(options.vehicle_type_selector)
            = Range(Column(vehicle_registration_df, "CD_CL_FUEL_ENG")) \cup {Str("All")}
        /\ value.vehicle_type_selector # None =>
            value.vehicle_type_selector \in Range(options.vehicle_type_selector)

-----------------------------------------------------------------------------
(* C26.  For each of the dataset keys vehicle, transport and bike,         *)
(* update_columns_options returns one option per column of the numeric     *)
(* projection of that dataset, in the order of the projection, with label  *)
(* and value both the column name, and no other option; the dataset it     *)
(* takes for a key is the one update_correlation_heatmap takes.            *)

\* the numeric projection that belongs to a dataset key
ProjectionFor(k) ==
    IF k = Str("bike") THEN bicycle_network_numeric
    ELSE IF k = Str("transport") THEN public_transport_numeric
    ELSE vehicle_registration_numeric

\* opts offers exactly the columns cols, in order
OptionsOffer(opts, cols) ==
    /\ Len(opts) = Len(cols)
    /\ \A i \in 1..Len(cols) : opts[i].label = cols[i] /\ opts[i].value = cols[i]

C26_ColumnOptionsAreProjectionColumns ==
    /\ StoreLoaded =>
        \A k \in Datasets :
            LET opts == update_columns_options(k)
                heat == update_correlation_heatmap(k, NoValue, Str("Viridis"))
            IN /\ OptionsOffer(opts, ProjectionFor(k).cols)
               /\ heat.kind = "heatmap" => OptionsOffer(opts, heat.x)
    /\ (pc = "serving" /\ value.dataset_selector \in Datasets) =>
        OptionsOffer(options.column_selector, ProjectionFor(value.dataset_selector).cols)

\* the transport dataset is selected; the selector offers its one numeric
\* column, which is not a column of the other projections
C26_Witness ==
    /\ pc = "serving"
    /\ value.dataset_selector = Str("transport")
    /\ options.column_selector = <<[label |-> "Pax_annual", value |-> "Pax_annual"]>>
    /\ "Pax_annual" \notin Range(vehicle_registration_numeric.cols)
                            \cup Range(bicycle_network_numeric.cols)
    /\ bicycle_network_numeric.cols = <<"Latitude", "Longitude">>

-----------------------------------------------------------------------------
(* C27.  The selection starts at its defaults (dataset vehicle, no column  *)
(* chosen, colour scale Viridis, vehicle type "All") and after any         *)
(* sequence of user events every field is in its domain: the dataset one   *)
(* of vehicle, transport, bike, the colour scale one of the four scales,   *)
(* the vehicle type a string; no dropdown can be brought into a state      *)
(* without value that a view then receives.                                *)
(* The dropdowns are declared without clearable=False, so each can be      *)
(* cleared and its callbacks then receive None: stated as the claim        *)
(* states it, TLC finds it violated.                                       *)
C27_SelectionStaysInDomain ==
    /\ pc = "run_server" =>
        value = [dataset_selector |-> Str("vehicle"), column_selector |-> NoValue,
                 color_scale_selector |-> Str("Viridis"),
                 vehicle_type_selector |-> Str("All")]
    /\ pc \in {"run_server", "serving"} =>
        /\ value.dataset_selector \in Datasets
        /\ value.color_scale_selector \in ColorScales
        /\ value.vehicle_type_selector.t = "str"

-----------------------------------------------------------------------------
(* C28.  After any sequence of dataset and column changes, whenever the    *)
(* heatmap callback is evaluated its selected columns are columns of the   *)
(* numeric projection of the dataset then selected: a dataset change       *)
(* after columns were picked never has the heatmap evaluated with columns  *)
(* of the dataset selected before.                                         *)
(* A dataset change replaces the options of column-selector but not its    *)
(* value, and triggers the heatmap callback with the value as it is; the   *)
(* callback raises KeyError at line 115: stated as the claim states it,    *)
(* TLC finds it violated.                                                  *)
C28_SelectedColumnsBelongToActiveDataset ==
    (pc = "serving" /\ "correlation_heatmap" \in evaluated) =>
        /\ Range(value.column_selector.list)
            \subseteq Range(NumericOf(value.dataset_selector).cols)
        /\ figure.correlation_heatmap # Raised("KeyError")

====
